---- MODULE Spec2Model ----
(***************************************************************************)
(* Model of culture.c, the translation framework of atheme-services:       *)
(*   - the two translation trees (itranslation_tree, translation_tree)     *)
(*     with translation_get / *_create / *_destroy, and                    *)
(*   - the language registry (language_list) with language_init,           *)
(*     language_add, language_find, language_names, language_is_valid.     *)
(*                                                                         *)
(* A C string is a sequence of one-character strings.  The byte 0x02 is    *)
(* the element STX.  A patricia tree is a function from keys to the        *)
(* translation_t records stored under them.  A language_t pointer is the   *)
(* position of the record in language_list (records are never unlinked),   *)
(* the null pointer is position 0.                                         *)
(*                                                                         *)
(* last, last2 and prev are history variables: the last call with its      *)
(* return value, the call before it, and the program state the last call   *)
(* started from.                                                           *)
(***************************************************************************)
EXTENDS Integers, Sequences, FiniteSets, TLC

VARIABLES itranslation_tree, translation_tree, language_list, localedir,
          last, last2, prev

vars == <<itranslation_tree, translation_tree, language_list, localedir,
          last, last2, prev>>

\* ------------------------------------------------------------ constants

\* enum { LANG_VALID = 1 }
LANG_VALID == 1

\* static char names[512] in language_names()
NAMES_SIZE == 512

\* BUFSIZE, the size of translation_create's buffer (atheme's headers)
BUFSIZE == 1024

\* Length of the long catalog names of the model (NAME_MAX of a dirent).
LongLen == 255

\* ------------------------------------------------------------ strings

STX == "STX"
BSL == "\\"

Rep(c, n) == [i \in 1..n |-> c]

sA == <<"a">>
sEsc == <<"a", BSL, "2">>
sCtl == <<"a", STX>>

sEn == <<"e", "n">>
sFr == <<"f", "r">>
sDot == <<".">>
sDotDot == <<".", ".">>
sAllLanguages == <<"a","l","l","_","l","a","n","g","u","a","g","e","s">>
sLocaleAlias == <<"l","o","c","a","l","e",".","a","l","i","a","s">>
sLong1 == Rep("x", LongLen)
sLong2 == Rep("y", LongLen)

\* Arguments the callers pass to the translation functions.
TStrs == {sA, sEsc, sCtl}

\* Names the callers pass to language_add.
AddNames == {sEn, sFr, sLong1, sAllLanguages}

\* What opendir(LOCALEDIR)/readdir can deliver: no directory, or a set of
\* entries, read in any order.
DirSets == { {sDotDot, sLocaleAlias, sFr},
             {sDot, sAllLanguages, sLong1, sLong2} }

Dirs == {[ok |-> FALSE, ents |-> {}]} \cup {[ok |-> TRUE, ents |-> d] : d \in DirSets}

Perms(S) == {s \in [1..Cardinality(S) -> S] : \A i, j \in 1..Cardinality(S) : s[i] = s[j] => i = j}

ReadDirOrders == [d \in DirSets \cup {{}} |-> Perms(d)]

Min(a, b) == IF a < b THEN a ELSE b

\* ------------------------------------------------------------ libc, libmowgli

\* strlcpy(buf, src, size) into an empty buffer: at most size-1 bytes.
strlcpy(src, size) == SubSeq(src, 1, Min(Len(src), size - 1))

\* strlcat(dst, src, size): appends what fits in size-1 bytes.
strlcat(dst, src, size) ==
    IF Len(dst) >= size - 1 THEN dst
    ELSE dst \o SubSeq(src, 1, Min(Len(src), size - 1 - Len(dst)))

IsPrefixAt(s, i, old) ==
    /\ i + Len(old) - 1 <= Len(s)
    /\ \A j \in 1..Len(old) : s[i + j - 1] = old[j]

\* replace(s, size, old, new): left to right, every occurrence of old that is
\* found becomes new; the scan goes on after the inserted text.  It stops when
\* the result would not fit in size bytes.
RECURSIVE replace_from(_, _, _, _, _)
replace_from(s, i, size, old, new) ==
    IF i + Len(old) - 1 > Len(s) THEN s
    ELSE IF ~IsPrefixAt(s, i, old) THEN replace_from(s, i + 1, size, old, new)
    ELSE IF Len(new) - Len(old) > size - (Len(s) + 1) THEN s
    ELSE replace_from(SubSeq(s, 1, i - 1) \o new \o SubSeq(s, i + Len(old), Len(s)),
                      i + Len(new), size, old, new)

replace(s, size, old, new) == replace_from(s, 1, size, old, new)

NULL == [name |-> <<"NULL">>, replacement |-> <<"NULL">>]

mowgli_patricia_retrieve(tree, key) ==
    IF key \in DOMAIN tree THEN tree[key] ELSE NULL

\* A key that is already in the tree is not inserted again: the tree keeps
\* the element it has (the caller's new translation_t is then simply lost).
mowgli_patricia_add(tree, key, data) ==
    IF key \in DOMAIN tree THEN tree
    ELSE [k \in DOMAIN tree \cup {key} |-> IF k = key THEN data ELSE tree[k]]

mowgli_patricia_delete(tree, key) ==
    [k \in DOMAIN tree \ {key} |-> tree[k]]

EmptyTree == [k \in {} |-> NULL]

\* ------------------------------------------------------------ history

NoStr == <<>>

Record(op, key, val, ret) ==
    /\ last' = [op |-> op, key |-> key, val |-> val, ret |-> ret]
    /\ last2' = [op |-> last.op, key |-> last.key]
    /\ prev' = [it |-> itranslation_tree, tt |-> translation_tree, ll |-> language_list]

\* ------------------------------------------------------------ translations

\* faulty variant: the fallback returns the caller's string, not the internal replacement
translation_get_original(str) ==
    LET t1 == mowgli_patricia_retrieve(itranslation_tree, str)
        s1 == IF t1 # NULL THEN t1.replacement ELSE str
        t2 == mowgli_patricia_retrieve(translation_tree, s1)
    IN  IF t2 # NULL THEN t2.replacement ELSE str

\* faulty variant: a miss in both trees yields the empty string
translation_get_empty(str) ==
    LET t1 == mowgli_patricia_retrieve(itranslation_tree, str)
        s1 == IF t1 # NULL THEN t1.replacement ELSE str
        t2 == mowgli_patricia_retrieve(translation_tree, s1)
    IN  IF t2 # NULL THEN t2.replacement ELSE IF t1 # NULL THEN s1 ELSE <<>>

\* faulty variant: the language tree is asked for the caller's string
translation_get_direct(str) ==
    LET t1 == mowgli_patricia_retrieve(itranslation_tree, str)
        s1 == IF t1 # NULL THEN t1.replacement ELSE str
        t2 == mowgli_patricia_retrieve(translation_tree, str)
    IN  IF t2 # NULL THEN t2.replacement ELSE s1

translation_get(str) ==
    LET t1 == mowgli_patricia_retrieve(itranslation_tree, str)
        s1 == IF t1 # NULL THEN t1.replacement ELSE str
        t2 == mowgli_patricia_retrieve(translation_tree, s1)
    IN  IF t2 # NULL THEN t2.replacement ELSE s1

TranslationGet(str) ==
    /\ Record("translation_get", str, NoStr, translation_get(str))
    /\ UNCHANGED <<itranslation_tree, translation_tree, language_list, localedir>>

itranslation_create(str, trans) ==
    LET t == [name |-> str, replacement |-> trans]
    IN  /\ itranslation_tree' = mowgli_patricia_add(itranslation_tree, t.name, t)
        /\ Record("itranslation_create", str, trans, NoStr)
        /\ UNCHANGED <<translation_tree, language_list, localedir>>

\* mowgli_patricia_delete hands back the element it unlinked, NULL when the
\* key is absent; the function then returns with the tree as it was
itranslation_destroy(str) ==
    /\ itranslation_tree' =
          IF mowgli_patricia_retrieve(itranslation_tree, str) = NULL
          THEN itranslation_tree
          ELSE mowgli_patricia_delete(itranslation_tree, str)
    /\ Record("itranslation_destroy", str, NoStr, NoStr)
    /\ UNCHANGED <<translation_tree, language_list, localedir>>

\* faulty variant: only the key is rewritten
translation_create_keyonly(str, trans) ==
    LET name == replace(strlcpy(str, BUFSIZE), BUFSIZE, <<BSL, "2">>, <<STX>>)
        replacement == strlcpy(trans, BUFSIZE)
        t == [name |-> name, replacement |-> replacement]
    IN  /\ translation_tree' = mowgli_patricia_add(translation_tree, t.name, t)
        /\ Record("translation_create", str, trans, NoStr)
        /\ UNCHANGED <<itranslation_tree, language_list, localedir>>

translation_create(str, trans) ==
    LET name == replace(strlcpy(str, BUFSIZE), BUFSIZE, <<BSL, "2">>, <<STX>>)
        replacement == replace(strlcpy(trans, BUFSIZE), BUFSIZE, <<BSL, "2">>, <<STX>>)
        t == [name |-> name, replacement |-> replacement]
    IN  /\ translation_tree' = mowgli_patricia_add(translation_tree, t.name, t)
        /\ Record("translation_create", str, trans, NoStr)
        /\ UNCHANGED <<itranslation_tree, language_list, localedir>>

\* faulty variant: the entry is looked for in the other tree
translation_destroy_wrongtree(str) ==
    /\ itranslation_tree' = mowgli_patricia_delete(itranslation_tree, str)
    /\ Record("translation_destroy", str, NoStr, NoStr)
    /\ UNCHANGED <<translation_tree, language_list, localedir>>

\* faulty variant: the argument is rewritten as translation_create rewrites it
translation_destroy_rewrite(str) ==
    /\ translation_tree' = mowgli_patricia_delete(translation_tree,
            replace(strlcpy(str, BUFSIZE), BUFSIZE, <<BSL, "2">>, <<STX>>))
    /\ Record("translation_destroy", str, NoStr, NoStr)
    /\ UNCHANGED <<itranslation_tree, language_list, localedir>>

translation_destroy(str) ==
    /\ translation_tree' =
          IF mowgli_patricia_retrieve(translation_tree, str) = NULL
          THEN translation_tree
          ELSE mowgli_patricia_delete(translation_tree, str)
    /\ Record("translation_destroy", str, NoStr, NoStr)
    /\ UNCHANGED <<itranslation_tree, language_list, localedir>>

\* ------------------------------------------------------------ languages

\* flags |= bit, flags & bit for a one-bit mask
FlagSet(flags, bit) == IF (flags \div bit) % 2 = 1 THEN flags ELSE flags + bit

FlagTest(flags, bit) == (flags \div bit) % 2 = 1

\* the position of the first record named name, 0 (a null pointer) when none
RECURSIVE find_from(_, _, _)
find_from(list, i, name) ==
    IF i > Len(list) THEN 0
    ELSE IF list[i].name = name THEN i
    ELSE find_from(list, i + 1, name)

language_find(list, name) == find_from(list, 1, name)

\* faulty variant: no look for an existing record
language_add_nofind(list, name) ==
    [list |-> Append(list, [name |-> name, flags |-> 0]), lang |-> Len(list) + 1]

\* faulty variant: a new record starts with LANG_VALID set
language_add_valid(list, name) ==
    LET lang == language_find(list, name)
    IN  IF lang # 0 THEN [list |-> list, lang |-> lang]
        ELSE [list |-> Append(list, [name |-> name, flags |-> LANG_VALID]),
              lang |-> Len(list) + 1]

\* the list after the call and the record returned; smalloc hands out zeroed
\* memory, so a new record has no flag set
language_add(list, name) ==
    LET lang == language_find(list, name)
    IN  IF lang # 0 THEN [list |-> list, lang |-> lang]
        ELSE [list |-> Append(list, [name |-> name, flags |-> 0]),
              lang |-> Len(list) + 1]

language_is_valid(lang) == FlagTest(lang.flags, LANG_VALID)

language_get_name(lang) == lang.name

\* lang = language_add(name); lang->flags |= LANG_VALID;
add_valid(list, name) ==
    LET r == language_add(list, name)
    IN  [r.list EXCEPT ![r.lang].flags = FlagSet(@, LANG_VALID)]

\* the readdir loop over the entries ents[i..]
RECURSIVE scan_from(_, _, _)
scan_from(list, ents, i) ==
    IF i > Len(ents) THEN list
    ELSE IF /\ (Len(ents[i]) = 0 \/ ents[i][1] # ".")
            /\ ents[i] # sAllLanguages
            /\ ents[i] # sLocaleAlias
         THEN scan_from(add_valid(list, ents[i]), ents, i + 1)
         ELSE scan_from(list, ents, i + 1)

\* faulty variant: "en" is registered but its flag is not set
language_init_noflag(list, dir, ents) ==
    LET l1 == language_add(list, sEn).list
    IN  IF dir.ok THEN scan_from(l1, ents, 1) ELSE l1

\* language_init() when opendir fails (dir.ok = FALSE) or readdir delivers ents
language_init(list, dir, ents) ==
    LET l1 == add_valid(list, sEn)
    IN  IF dir.ok THEN scan_from(l1, ents, 1) ELSE l1

RECURSIVE names_from(_, _, _)
names_from(list, i, names) ==
    IF i > Len(list) THEN names
    ELSE IF FlagTest(list[i].flags, LANG_VALID)
         THEN names_from(list, i + 1,
                  strlcat(IF names # <<>> THEN strlcat(names, <<" ">>, NAMES_SIZE) ELSE names,
                          list[i].name, NAMES_SIZE))
         ELSE names_from(list, i + 1, names)

\* faulty variant: the valid flag is not tested
RECURSIVE names_all_from(_, _, _)
names_all_from(list, i, names) ==
    IF i > Len(list) THEN names
    ELSE names_all_from(list, i + 1,
             strlcat(IF names # <<>> THEN strlcat(names, <<" ">>, NAMES_SIZE) ELSE names,
                     list[i].name, NAMES_SIZE))

language_names_all(list) == names_all_from(list, 1, <<>>)

language_names(list) == names_from(list, 1, <<>>)

LanguageInit ==
    /\ \E ents \in ReadDirOrders[localedir.ents] :
          language_list' = language_init(language_list, localedir, ents)
    /\ Record("language_init", NoStr, NoStr, NoStr)
    /\ UNCHANGED <<itranslation_tree, translation_tree, localedir>>

LanguageAdd(name) ==
    LET r == language_add(language_list, name)
    IN  /\ language_list' = r.list
        /\ Record("language_add", name, NoStr, r.lang)
        /\ UNCHANGED <<itranslation_tree, translation_tree, localedir>>

LanguageNames ==
    /\ Record("language_names", NoStr, NoStr, language_names(language_list))
    /\ UNCHANGED <<itranslation_tree, translation_tree, language_list, localedir>>

\* ------------------------------------------------------------ specifications

NoCall == [op |-> "none", key |-> NoStr, val |-> NoStr, ret |-> NoStr]

InitT ==
    /\ itranslation_tree = EmptyTree
    /\ translation_tree = EmptyTree
    /\ language_list = <<>>
    /\ localedir = [ok |-> FALSE, ents |-> {}]
    /\ last = NoCall
    /\ last2 = [op |-> "none", key |-> NoStr]
    /\ prev = [it |-> EmptyTree, tt |-> EmptyTree, ll |-> <<>>]

NextT ==
    \/ \E s \in TStrs : TranslationGet(s)
    \/ \E s, t \in TStrs : itranslation_create(s, t)
    \/ \E s \in TStrs : itranslation_destroy(s)
    \/ \E s, t \in TStrs : translation_create(s, t)
    \/ \E s \in TStrs : translation_destroy(s)

SpecT == InitT /\ [][NextT]_vars

\* The catalog directory does not change while the process runs.
InitL ==
    /\ itranslation_tree = EmptyTree
    /\ translation_tree = EmptyTree
    /\ language_list = <<>>
    /\ localedir \in Dirs
    /\ last = NoCall
    /\ last2 = [op |-> "none", key |-> NoStr]
    /\ prev = [it |-> EmptyTree, tt |-> EmptyTree, ll |-> <<>>]

NextL ==
    \/ LanguageInit
    \/ \E n \in AddNames : LanguageAdd(n)
    \/ LanguageNames

SpecL == InitL /\ [][NextL]_vars

\* ------------------------------------------------------------ claims

Esc == <<BSL, "2">>

HasEscape(s) == \E i \in 1..Len(s) : IsPrefixAt(s, i, Esc)

\* R of the claims: every backslash+'2' becomes the byte 0x02
RECURSIVE R(_)
R(s) ==
    IF Len(s) < 2 THEN s
    ELSE IF s[1] = BSL /\ s[2] = "2" THEN <<STX>> \o R(SubSeq(s, 3, Len(s)))
    ELSE <<s[1]>> \o R(Tail(s))

Entry(k, v) == [name |-> k, replacement |-> v]

\* translation_get(s) was called with s -> v in the internal tree and no entry
\* for v in the language tree
C1_Case ==
    /\ last.op = "translation_get"
    /\ last.key \in DOMAIN itranslation_tree
    /\ itranslation_tree[last.key].replacement \notin DOMAIN translation_tree

\* C1 as stated: when the internal tree maps s to v and the language tree has
\* no entry for v, translation_get(s) returns the original s.
C1_Original == C1_Case => last.ret = last.key

\* C1 amended: when the internal tree maps s to v and the language tree has no
\* entry for v, translation_get(s) returns v, the internal replacement.
C1_Amended == C1_Case => last.ret = itranslation_tree[last.key].replacement

C1_Witness ==
    /\ C1_Case
    /\ itranslation_tree[last.key].replacement # last.key
    /\ last.ret = itranslation_tree[last.key].replacement

\* C2: a string that is a key of neither tree is returned as it is, whatever
\* was created and destroyed before.
C2_Theorem ==
    (/\ last.op = "translation_get"
     /\ last.key \notin DOMAIN itranslation_tree
     /\ last.key \notin DOMAIN translation_tree) => last.ret = last.key

C2_Witness ==
    /\ last.op = "translation_get"
    /\ last.key \notin DOMAIN itranslation_tree
    /\ last.key \notin DOMAIN translation_tree
    /\ DOMAIN itranslation_tree # {}
    /\ DOMAIN translation_tree # {}
    /\ last.ret = last.key

\* translation_get(k) was called with k -> v in the internal tree and v -> w in
\* the language tree
C3_Case ==
    /\ last.op = "translation_get"
    /\ last.key \in DOMAIN itranslation_tree
    /\ itranslation_tree[last.key].replacement \in DOMAIN translation_tree

\* C3: with k -> v in the internal tree and v -> w in the language tree,
\* translation_get(k) returns w: the language tree is asked for v, not k, and
\* w is not looked up again.
C3_Theorem ==
    C3_Case =>
        last.ret = translation_tree[itranslation_tree[last.key].replacement].replacement

\* the language tree also has entries for k and for w, both different from w
C3_Witness ==
    /\ C3_Case
    /\ last.key \in DOMAIN translation_tree
    /\ translation_tree[last.key].replacement # last.ret
    /\ last.ret \in DOMAIN translation_tree
    /\ translation_tree[last.ret].replacement # last.ret
    /\ last.ret = translation_tree[itranslation_tree[last.key].replacement].replacement

\* C4: in either tree, create(k, v) followed by destroy(k) leaves no entry
\* under k; destroy of a key that is absent changes neither tree.
C4_Theorem ==
    /\ (/\ last.op = "itranslation_destroy"
        /\ last2.op = "itranslation_create"
        /\ last2.key = last.key)
           => mowgli_patricia_retrieve(itranslation_tree, last.key) = NULL
    /\ (/\ last.op = "translation_destroy"
        /\ last2.op = "translation_create"
        /\ last2.key = last.key)
           => mowgli_patricia_retrieve(translation_tree, last.key) = NULL
    /\ (last.op = "itranslation_destroy" /\ last.key \notin DOMAIN prev.it)
           => itranslation_tree = prev.it /\ translation_tree = prev.tt
    /\ (last.op = "translation_destroy" /\ last.key \notin DOMAIN prev.tt)
           => itranslation_tree = prev.it /\ translation_tree = prev.tt

C4_Witness ==
    /\ last.op = "translation_destroy"
    /\ last2.op = "translation_create"
    /\ last2.key = last.key
    /\ last.key \in DOMAIN prev.tt
    /\ last.key \notin DOMAIN translation_tree

\* C9 as stated: translation_create(k, v) stores R(k) -> R(v), so that
\* translation_get(R(k)) returns R(v) and translation_get(k), for k with the
\* escape and no other entry matching, returns k; itranslation_create(k, v)
\* stores k -> v as given.
C9_Original ==
    /\ last.op = "translation_create" =>
        /\ R(last.key) \in DOMAIN translation_tree
        /\ translation_tree[R(last.key)] = Entry(R(last.key), R(last.val))
        /\ translation_get(R(last.key)) = R(last.val)
        /\ (HasEscape(last.key) /\ last.key \notin DOMAIN itranslation_tree)
              => translation_get(last.key) = last.key
    /\ last.op = "itranslation_create" =>
        /\ last.key \in DOMAIN itranslation_tree
        /\ itranslation_tree[last.key] = Entry(last.key, last.val)

\* C9 amended: when R(k) is not yet a key of the language tree,
\* translation_create(k, v) stores R(k) -> R(v), and translation_get(R(k))
\* returns R(v) when the internal tree has no entry for R(k);
\* translation_get(k), for k with the escape and no internal entry, returns k;
\* itranslation_create(k, v), when k is not yet a key of the internal tree,
\* stores k -> v as given.
C9_Amended ==
    /\ last.op = "translation_create" =>
        /\ R(last.key) \in DOMAIN translation_tree
        /\ R(last.key) \notin DOMAIN prev.tt =>
            /\ translation_tree[R(last.key)] = Entry(R(last.key), R(last.val))
            /\ R(last.key) \notin DOMAIN itranslation_tree
                  => translation_get(R(last.key)) = R(last.val)
        /\ (HasEscape(last.key) /\ last.key \notin DOMAIN itranslation_tree)
              => translation_get(last.key) = last.key
    /\ (last.op = "itranslation_create" /\ last.key \notin DOMAIN prev.it) =>
        /\ last.key \in DOMAIN itranslation_tree
        /\ itranslation_tree[last.key] = Entry(last.key, last.val)

\* translation_create("a\2", "a\2") has stored "a"+0x02 -> "a"+0x02
C9_Witness ==
    /\ last.op = "translation_create"
    /\ last.key = <<"a", BSL, "2">>
    /\ last.val = <<"a", BSL, "2">>
    /\ <<"a", STX>> \notin DOMAIN prev.tt
    /\ translation_tree[<<"a", STX>>] = Entry(<<"a", STX>>, <<"a", STX>>)
    /\ translation_get(<<"a", STX>>) = <<"a", STX>>
    /\ translation_get(<<"a", BSL, "2">>) = <<"a", BSL, "2">>

\* translation_create(k, v) is followed at once by translation_destroy(k)
C10_Case ==
    /\ last.op = "translation_create"
    /\ last'.op = "translation_destroy"
    /\ last'.key = last.key

Positions(list) == 1..Len(list)

\* C5: no two records of the language list have the same name; language_add
\* of a name already registered returns the existing record and changes
\* neither the list nor any flag.
C5_Theorem ==
    /\ \A i, j \in Positions(language_list) :
          language_list[i].name = language_list[j].name => i = j
    /\ (/\ last.op = "language_add"
        /\ \E i \in Positions(prev.ll) : prev.ll[i].name = last.key)
           => /\ language_list = prev.ll
              /\ last.ret \in Positions(prev.ll)
              /\ prev.ll[last.ret].name = last.key

\* language_add("fr") twice in a row
C5_Witness ==
    /\ last.op = "language_add"
    /\ last2.op = "language_add"
    /\ last2.key = last.key
    /\ last.key = <<"f", "r">>
    /\ Len(language_list) >= 2
    /\ language_list = prev.ll

PassesFilter(name) ==
    /\ name # <<>> => name[1] # "."
    /\ name # sAllLanguages
    /\ name # sLocaleAlias

\* C7: a record made by language_add is invalid; a record becomes valid only
\* in language_init, as "en" or as a directory entry that passes the filter;
\* a valid record stays valid and no record leaves the list.
C7_Theorem ==
    [][ /\ Len(language_list') >= Len(language_list)
        /\ \A i \in Positions(language_list) :
              /\ language_list'[i].name = language_list[i].name
              /\ language_is_valid(language_list[i]) => language_is_valid(language_list'[i])
        /\ last'.op = "language_add" =>
              \A i \in Positions(language_list') \ Positions(language_list) :
                  ~language_is_valid(language_list'[i])
        /\ \A i \in Positions(language_list') :
              (/\ language_is_valid(language_list'[i])
               /\ (i > Len(language_list) \/ ~language_is_valid(language_list[i])))
                 => /\ last'.op = "language_init"
                    /\ \/ language_list'[i].name = <<"e", "n">>
                       \/ /\ localedir.ok
                          /\ language_list'[i].name \in localedir.ents
                          /\ PassesFilter(language_list'[i].name)
      ]_vars

\* language_init made valid a record that language_add had registered, and left
\* another one invalid
C7_Witness ==
    /\ last.op = "language_init"
    /\ \E i \in Positions(prev.ll) :
          /\ ~language_is_valid(prev.ll[i])
          /\ language_is_valid(language_list[i])
          /\ language_list[i].name # <<"e", "n">>
    /\ \E i \in Positions(prev.ll) : ~language_is_valid(language_list[i])

\* the names of the valid records, in list order
ValidNames(list) ==
    LET v == SelectSeq(list, LAMBDA r : r.flags % 2 = 1)
    IN  [i \in 1..Len(v) |-> v[i].name]

RECURSIVE Join(_)
Join(ss) ==
    IF ss = <<>> THEN <<>>
    ELSE IF Len(ss) = 1 THEN ss[1]
    ELSE ss[1] \o <<" ">> \o Join(Tail(ss))

Prefix(s, n) == IF Len(s) <= n THEN s ELSE SubSeq(s, 1, n)

\* C8: language_names() is the names of the valid records, in the order the
\* records were added, joined by single spaces, cut to what the buffer holds.
C8_Theorem ==
    last.op = "language_names" =>
        last.ret = Prefix(Join(ValidNames(language_list)), NAMES_SIZE - 1)

\* the first record was added before language_init ran and became valid after
\* "en"; the joined names do not fit and are cut
C8_Witness ==
    /\ last.op = "language_names"
    /\ Len(language_list) >= 3
    /\ language_list[1].name # <<"e", "n">>
    /\ language_is_valid(language_list[1])
    /\ Len(ValidNames(language_list)) = 3
    /\ Len(Join(ValidNames(language_list))) > NAMES_SIZE - 1
    /\ Len(last.ret) = NAMES_SIZE - 1

====
